---------------------------- MODULE Spec2Model ----------------------------
(***************************************************************************)
(* cosmi-kit: the message/task dispatch loop (AppModel), the data-access   *)
(* service (AppData), the storage engine (SqliteDatabase) and the page     *)
(* state containers (ProjectManagerPage, OcGeneratorPage, NewProjectPage). *)
(*                                                                         *)
(* Encodings.  Option<T>: None is <<>>, Some(x) is <<x>>.  Result<T,E>:    *)
(* [ok |-> TRUE, val |-> v] or [ok |-> FALSE, err |-> e].  An anyhow error *)
(* is a record [msg |-> text]; to_string() yields the text.  format!() of  *)
(* a prefix and a value is the pair <<prefix, value>>.                     *)
(***************************************************************************)
EXTENDS Integers, Sequences, FiniteSets, TLC

VARIABLES
  started,               \* AppModel::init has run
  panicked,              \* the UI thread unwound (process aborted)
  nav,                   \* AppModel.nav: Option<Page> of the active nav item
  app_data,              \* AppModel.app_data: [db |-> Option<SqliteDatabase>]
  project_manager_page,  \* AppModel.project_manager_page
  oc_generator_page,     \* AppModel.oc_generator_page
  tasks,                 \* Task::perform futures in flight, in scheduling order
  queue,                 \* messages delivered to the runtime, not yet applied
  store,                 \* the relational store file (projects table)
  config,                \* the settings store: value under key "characters"
  svc,                   \* outcome of the last direct AppData operation
  last                   \* the step just taken (history)

vars == <<started, panicked, nav, app_data, project_manager_page,
          oc_generator_page, tasks, queue, store, config, svc, last>>

-----------------------------------------------------------------------------
(* Bounds of the model *)

\* at most this many messages and futures are pending at once
MaxPending == 2
\* at most this many saved characters (in memory or persisted)
MaxSaved == 2
\* at most this many toasts are ever pushed
MaxToasts == 1
\* at most this many project rows are ever inserted
MaxProjects == 2

-----------------------------------------------------------------------------
(* Option and Result *)

None == <<>>
Some(x) == <<x>>
is_some(o) == o /= <<>>
unwrap(o) == o[1]

Ok(v) == [ok |-> TRUE, val |-> v]
Err(e) == [ok |-> FALSE, err |-> e]

anyhow(text) == [msg |-> text]
to_string(e) == e.msg
\* Result::map_err(|e| e.to_string())
map_err_to_string(r) == IF r.ok THEN r ELSE Err(to_string(r.err))
format(prefix, e) == <<prefix, e>>

-----------------------------------------------------------------------------
(* Storage engine: database/mod.rs, database/sqlite.rs *)

\* at most this many distinct seconds on the store's clock
MaxTime == 2

Names == {"", "Alpha", "Beta"}
Descriptions == {None, Some("d")}
Times == 1..MaxTime

\* struct Project
Project(id, name, description, created_at) ==
  [id |-> id, name |-> name, description |-> description, created_at |-> created_at]

\* at most this many migration steps in ./migrations
MaxMigrations == 2

\* the store on disk: whether the data directory and the database file exist,
\* how many migration steps are recorded as applied, and the rows
Disk(dir, file, applied) ==
  [dir |-> dir, file |-> file, applied |-> applied,
   projects |-> <<>>, project_tags |-> {}, tags |-> <<>>, features |-> <<>>]

\* the store file after the migrations: no rows
EmptyStore == Disk(TRUE, TRUE, MaxMigrations)

\* what one engine (or service) call did: whether it unwound, what it returned,
\* the store it left, and whether the storage engine was entered at all
Outcome(result, st) == [panic |-> FALSE, result |-> result, store |-> st, engine |-> TRUE]
Unwound(text, st) == [panic |-> TRUE, result |-> Err(anyhow(text)), store |-> st, engine |-> TRUE]

sqlx_error == anyhow("sqlx error")

max_rowid(rows) ==
  IF rows = <<>> THEN 0
  ELSE CHOOSE m \in {rows[i].id : i \in DOMAIN rows} :
         \A i \in DOMAIN rows : rows[i].id <= m

\* the store's clock never runs behind a row it has stamped
clock_values(st) ==
  {t \in Times : \A i \in DOMAIN st.projects : st.projects[i].created_at <= t}

\* INSERT INTO projects (name, description) VALUES (?, ?): rowid and created_at
\* are assigned by the store
insert_project(st, name, description, now) ==
  [st EXCEPT !.projects =
     Append(@, Project(max_rowid(@) + 1, name, description, now))]

\* mutant: the project is built by the caller with a placeholder id instead of
\* being read back from the store
SqliteDatabase_create_project_synthetic(st, name, description) ==
  {Outcome(Err(sqlx_error), st)}
  \cup UNION {
    LET st2 == insert_project(st, name, description, now)
    IN  {Outcome(Err(sqlx_error), st2), Outcome(Ok(Project(0, name, description, now)), st2)}
    : now \in clock_values(st)}

\* SqliteDatabase::create_project: the INSERT can fail (nothing written), the
\* SELECT of the new row can fail (the row stays), or both succeed
SqliteDatabase_create_project(st, name, description) ==
  {Outcome(Err(sqlx_error), st)}
  \cup UNION {
    LET st2 == insert_project(st, name, description, now)
        id == max_rowid(st.projects) + 1
        row == CHOOSE r \in {st2.projects[i] : i \in DOMAIN st2.projects} : r.id = id
    IN  {Outcome(Err(sqlx_error), st2), Outcome(Ok(row), st2)}
    : now \in clock_values(st)}

\* all orders of the rows a query "ORDER BY created_at DESC" may return: ties
\* are in no specified order
orders_by_created_at_desc(rows) ==
  LET n == Len(rows)
      perms == {f \in [1..n -> 1..n] : \A i, j \in 1..n : i /= j => f[i] /= f[j]}
  IN  {[i \in 1..n |-> rows[f[i]]] :
         f \in {g \in perms : \A i, j \in 1..n :
                  i < j => rows[g[i]].created_at >= rows[g[j]].created_at}}

\* tags joined through project_tags for one project
tags_of(st, project_id) ==
  SelectSeq(st.tags, LAMBDA t : <<project_id, t.id>> \in st.project_tags)

features_of(st, project_id) ==
  SelectSeq(st.features, LAMBDA f : f.project_id = project_id)

\* SqliteDatabase::get_all_projects: any query can fail; otherwise one triple
\* per project row
SqliteDatabase_get_all_projects(st) ==
  {Outcome(Err(sqlx_error), st)}
  \cup {Outcome(Ok([i \in 1..Len(ps) |->
                     <<ps[i], tags_of(st, ps[i].id), features_of(st, ps[i].id)>>]), st)
        : ps \in orders_by_created_at_desc(st.projects)}

\* the trait methods whose body is todo!()
SqliteDatabase_delete_project(st, id) == {Unwound("not yet implemented: Implement delete_project", st)}
SqliteDatabase_create_tag(st, name) == {Unwound("not yet implemented: Implement create_tag", st)}
SqliteDatabase_get_all_tags(st) == {Unwound("not yet implemented: Implement get_all_tags", st)}
SqliteDatabase_add_tag_to_project(st, project_id, tag_id) == {Unwound("not yet implemented: Implement add_tag_to_project", st)}
SqliteDatabase_add_feature(st, project_id, description) == {Unwound("not yet implemented: Implement add_feature", st)}
SqliteDatabase_get_project_features(st, project_id) == {Unwound("not yet implemented: Implement get_project_features", st)}

io_error == anyhow("io error")
migrate_error == anyhow("migration failed")

\* what SqliteDatabase::new returned and the store it left
Started(result, st) == [result |-> result, store |-> st]

\* sqlx::migrate!().run: the steps not yet recorded are applied in order, each
\* in its own transaction; a failing step ends the run with the earlier ones
\* kept, and reading the record of applied steps can itself fail
migrate_run(st) ==
  {Started(Err(migrate_error), [st EXCEPT !.applied = k]) : k \in st.applied..MaxMigrations}
  \cup {Started(Ok("pool"), [st EXCEPT !.applied = MaxMigrations])}

\* mutant: the database file is created anew on every start
SqliteDatabase_new_recreate(st) ==
  LET st1 == [st EXCEPT !.dir = TRUE]
      st2 == Disk(TRUE, TRUE, 0)
  IN  {Started(Err(anyhow("Could not find data directory")), st),
       Started(Err(io_error), st),
       Started(Err(anyhow("Invalid database path")), st1),
       Started(Err(sqlx_error), st1),
       Started(Err(sqlx_error), st2)}
      \cup migrate_run(st2)

\* SqliteDatabase::new: the data directory is looked up and created if missing,
\* the database file is created if it does not exist, the pool connects and the
\* migrations run; each step can fail and ends the start with what the earlier
\* steps did; success yields the pool handle
SqliteDatabase_new(st) ==
  LET st1 == [st EXCEPT !.dir = TRUE]
      st2 == [st1 EXCEPT !.file = TRUE]
  IN  {Started(Err(anyhow("Could not find data directory")), st),
       Started(Err(io_error), st),
       Started(Err(anyhow("Invalid database path")), st1),
       Started(Err(sqlx_error), st1),
       Started(Err(sqlx_error), st2)}
      \cup migrate_run(st2)

-----------------------------------------------------------------------------
(* Data-access service: application/app_data.rs *)

AppData_new == [db |-> None]
AppData_set_database(ad, db) == [ad EXCEPT !.db = Some(db)]
AppData_has_database(ad) == is_some(ad.db)

not_initialized(st) ==
  [panic |-> FALSE, result |-> Err(anyhow("Database not initialized")),
   store |-> st, engine |-> FALSE]

AppData_load_projects(ad, st) ==
  IF is_some(ad.db) THEN SqliteDatabase_get_all_projects(st) ELSE {not_initialized(st)}
\* mutant: create_project without the handle check
AppData_create_project_unchecked(ad, st, name, description) ==
  SqliteDatabase_create_project(st, name, description)
AppData_create_project(ad, st, name, description) ==
  IF is_some(ad.db) THEN SqliteDatabase_create_project(st, name, description)
  ELSE {not_initialized(st)}
AppData_delete_project(ad, st, id) ==
  IF is_some(ad.db) THEN SqliteDatabase_delete_project(st, id) ELSE {not_initialized(st)}
AppData_create_tag(ad, st, name) ==
  IF is_some(ad.db) THEN SqliteDatabase_create_tag(st, name) ELSE {not_initialized(st)}
AppData_get_all_tags(ad, st) ==
  IF is_some(ad.db) THEN SqliteDatabase_get_all_tags(st) ELSE {not_initialized(st)}
AppData_add_tag_to_project(ad, st, project_id, tag_id) ==
  IF is_some(ad.db) THEN SqliteDatabase_add_tag_to_project(st, project_id, tag_id)
  ELSE {not_initialized(st)}
AppData_add_feature(ad, st, project_id, description) ==
  IF is_some(ad.db) THEN SqliteDatabase_add_feature(st, project_id, description)
  ELSE {not_initialized(st)}
AppData_get_project_features(ad, st, project_id) ==
  IF is_some(ad.db) THEN SqliteDatabase_get_project_features(st, project_id)
  ELSE {not_initialized(st)}

-----------------------------------------------------------------------------
(* Page state containers: pages/project_manager.rs, pages/oc_generator.rs,
   pages/context_pages/new_project.rs *)

\* enum ProjectManagerPageMessage
PM_LoadData == [kind |-> "LoadData"]
PM_DataLoaded(result) == [kind |-> "DataLoaded", result |-> result]
PM_ToggleCreateProject == [kind |-> "ToggleCreateProject"]
PM_CreateProject(name, description) ==
  [kind |-> "CreateProject", name |-> name, description |-> description]
PM_DeleteProject(id) == [kind |-> "DeleteProject", id |-> id]
PM_ProjectCreated(result) == [kind |-> "ProjectCreated", result |-> result]
PM_CloseToast(id) == [kind |-> "CloseToast", id |-> id]

\* enum OCPageMessage
OC_LoadData == [kind |-> "LoadData"]
OC_GenerateButtonClicked == [kind |-> "GenerateButtonClicked"]
OC_SaveButtonClicked == [kind |-> "SaveButtonClicked"]
OC_DeleteCharacter(index) == [kind |-> "DeleteCharacter", index |-> index]

\* enum Message (app.rs)
Msg_OcGeneratorPage(m) == [tag |-> "OcGeneratorPage", msg |-> m]
Msg_ProjectManagerPage(m) == [tag |-> "ProjectManagerPage", msg |-> m]
Msg_DatabaseInitialized(result) == [tag |-> "DatabaseInitialized", result |-> result]
Msg_SubscriptionChannel == [tag |-> "SubscriptionChannel"]

\* enum NewProjectMessage
NP_UpdateName(name) == [kind |-> "UpdateName", name |-> name]
NP_UpdateDescription(description) == [kind |-> "UpdateDescription", description |-> description]
NP_CreateProject(name, description) ==
  [kind |-> "CreateProject", name |-> name, description |-> description]
NP_Cancel == [kind |-> "Cancel"]

\* NewProjectPage::default
NewProjectPage_default == [name |-> "", description |-> ""]

\* NewProjectPage::view: the message of the save button
NewProjectPage_save_button(form) ==
  NP_CreateProject(form.name,
                   IF form.description = "" THEN None ELSE Some(form.description))

\* mutant: the form resets itself when its save button is pressed
NewProjectPage_update_resetting(form, message) ==
  CASE message.kind = "UpdateName" -> [form EXCEPT !.name = message.name]
    [] message.kind = "UpdateDescription" -> [form EXCEPT !.description = message.description]
    [] message.kind = "Cancel" -> [form EXCEPT !.name = "", !.description = ""]
    [] OTHER -> [form EXCEPT !.name = "", !.description = ""]

\* NewProjectPage::update
NewProjectPage_update(form, message) ==
  CASE message.kind = "UpdateName" -> [form EXCEPT !.name = message.name]
    [] message.kind = "UpdateDescription" -> [form EXCEPT !.description = message.description]
    [] message.kind = "Cancel" -> [form EXCEPT !.name = "", !.description = ""]
    [] OTHER -> form

\* Toasts::new: no entries; ids are handed out in push order
Toasts_new == [items |-> <<>>, next |-> 1]
Toasts_push(toasts, text) ==
  [items |-> Append(toasts.items, [id |-> toasts.next, text |-> text]),
   next |-> toasts.next + 1]
Toasts_remove(toasts, id) ==
  [toasts EXCEPT !.items = SelectSeq(@, LAMBDA t : t.id /= id)]

\* ProjectManagerPage::default
ProjectManagerPage_default ==
  [projects |-> <<>>,
   new_project_form |-> NewProjectPage_default,
   is_loading |-> TRUE,
   toasts |-> Toasts_new,
   error_message |-> None]

\* mutant: a load result is added to the projects the page already holds
ProjectManagerPage_update_incremental(page, message) ==
  IF message.kind = "DataLoaded" /\ message.result.ok
  THEN [page |-> [page EXCEPT !.is_loading = FALSE,
                              !.projects = @ \o message.result.val],
        task |-> <<>>]
  ELSE [page |-> [page EXCEPT !.is_loading = FALSE], task |-> <<>>]

\* mutant: a failed load discards the projects the page holds
ProjectManagerPage_update_discarding(page, message) ==
  CASE message.kind = "LoadData" ->
         [page |-> [page EXCEPT !.is_loading = TRUE], task |-> <<>>]
    [] message.kind = "DataLoaded" ->
         [page |-> IF message.result.ok
                   THEN [page EXCEPT !.is_loading = FALSE,
                                     !.projects = message.result.val]
                   ELSE [page EXCEPT !.is_loading = FALSE,
                                     !.projects = <<>>,
                                     !.error_message =
                                        Some(format("Failed to load projects: ",
                                                    message.result.err))],
          task |-> <<>>]
    [] message.kind = "ProjectCreated" ->
         IF message.result.ok
         THEN [page |-> [page EXCEPT !.is_loading = FALSE,
                                     !.toasts = Toasts_push(@,
                                        format("project-created: ", message.result.val.name))],
               task |-> <<PM_LoadData>>]
         ELSE [page |-> [page EXCEPT !.is_loading = FALSE,
                                     !.toasts = Toasts_push(@,
                                        format("error: ", message.result.err))],
               task |-> <<>>]
    [] message.kind = "CreateProject" ->
         [page |-> [page EXCEPT !.is_loading = TRUE], task |-> <<>>]
    [] message.kind = "DeleteProject" ->
         [page |-> [page EXCEPT !.is_loading = TRUE], task |-> <<>>]
    [] message.kind = "ToggleCreateProject" ->
         [page |-> page, task |-> <<>>]
    [] message.kind = "CloseToast" ->
         [page |-> [page EXCEPT !.toasts = Toasts_remove(@, message.id)], task |-> <<>>]

\* ProjectManagerPage::update: the new page state and the Task it returns (the
\* messages of a Task::done, none for Task::none)
ProjectManagerPage_update(page, message) ==
  CASE message.kind = "LoadData" ->
         [page |-> [page EXCEPT !.is_loading = TRUE], task |-> <<>>]
    [] message.kind = "DataLoaded" ->
         [page |-> IF message.result.ok
                   THEN [page EXCEPT !.is_loading = FALSE,
                                     !.projects = message.result.val]
                   ELSE [page EXCEPT !.is_loading = FALSE,
                                     !.error_message =
                                        Some(format("Failed to load projects: ",
                                                    message.result.err))],
          task |-> <<>>]
    [] message.kind = "ProjectCreated" ->
         IF message.result.ok
         THEN [page |-> [page EXCEPT !.is_loading = FALSE,
                                     !.toasts = Toasts_push(@,
                                        format("project-created: ", message.result.val.name))],
               task |-> <<PM_LoadData>>]
         ELSE [page |-> [page EXCEPT !.is_loading = FALSE,
                                     !.toasts = Toasts_push(@,
                                        format("error: ", message.result.err))],
               task |-> <<>>]
    [] message.kind = "CreateProject" ->
         [page |-> [page EXCEPT !.is_loading = TRUE], task |-> <<>>]
    [] message.kind = "DeleteProject" ->
         [page |-> [page EXCEPT !.is_loading = TRUE], task |-> <<>>]
    [] message.kind = "ToggleCreateProject" ->
         [page |-> page, task |-> <<>>]
    [] message.kind = "CloseToast" ->
         [page |-> [page EXCEPT !.toasts = Toasts_remove(@, message.id)], task |-> <<>>]

\* the texts generate() can produce
OcTexts == {"A shy fox sparkle", "A tall cat ponytail"}

\* the seconds Utc::now() can read when an artifact is saved
OcTimes == {1, 2}

\* SavedOC::new: the text stamped with Utc::now()
SavedOC_new(text, now) == [text |-> text, created_at |-> now]

\* OcGeneratorPage::default
OcGeneratorPage_default == [oc_text |-> None, saved_characters |-> <<>>, is_loaded |-> FALSE]

config_error == [msg |-> "cosmic_config error"]

\* mutant: the write stores the newest entry alone instead of the whole list
save_characters_newest_only(page, cfg) ==
  {[page |-> page, config |-> cfg, result |-> Err(config_error)],
   [page |-> page,
    config |-> Some(IF page.saved_characters = <<>> THEN <<>>
                    ELSE <<page.saved_characters[Len(page.saved_characters)]>>),
    result |-> Ok("unit")]}

\* mutant: the write adds the newest entry to the stored list instead of
\* replacing the stored list by the whole list in memory
save_characters_incremental(page, cfg) ==
  {[page |-> page, config |-> cfg, result |-> Err(config_error)],
   [page |-> page,
    config |-> Some((IF is_some(cfg) THEN unwrap(cfg) ELSE <<>>)
                    \o (IF page.saved_characters = <<>> THEN <<>>
                        ELSE <<page.saved_characters[Len(page.saved_characters)]>>)),
    result |-> Ok("unit")]}

\* OcGeneratorPage::save_characters: opening the settings store or the write can
\* fail (nothing written); otherwise the whole list replaces the stored value
save_characters(page, cfg) ==
  {[page |-> page, config |-> cfg, result |-> Err(config_error)],
   [page |-> page, config |-> Some(page.saved_characters), result |-> Ok("unit")]}

\* OcGeneratorPage::load_characters: opening the store or the read can fail (also
\* when the key was never written); otherwise the stored list replaces the page's
load_characters(page, cfg) ==
  {[page |-> page, config |-> cfg, result |-> Err(config_error)]}
  \cup IF is_some(cfg)
       THEN {[page |-> [page EXCEPT !.saved_characters = unwrap(cfg)],
              config |-> cfg, result |-> Ok("unit")]}
       ELSE {}

\* mutant: the entry after the requested one is removed (1-based index)
vec_remove_off_by_one(v, index) ==
  [i \in 1..(Len(v) - 1) |-> IF i <= index + 1 THEN v[i] ELSE v[i + 1]]

\* Vec::remove(index), index in range
vec_remove(v, index) ==
  [i \in 1..(Len(v) - 1) |-> IF i <= index THEN v[i] ELSE v[i + 1]]

\* OcGeneratorPage::delete_character_at_index, index in range
delete_character_at_index(page, cfg, index) ==
  save_characters([page EXCEPT !.saved_characters = vec_remove(@, index)], cfg)

\* OcGeneratorPage::update: every way the handler can end: the page, the
\* settings store, and whether it unwound (Vec::remove out of range)
OcGeneratorPage_update(page, cfg, message) ==
  CASE message.kind = "LoadData" ->
         IF ~page.is_loaded
         THEN {[page |-> r.page, config |-> r.config, panic |-> FALSE] :
                 r \in load_characters(page, cfg)}
         ELSE {[page |-> page, config |-> cfg, panic |-> FALSE]}
    [] message.kind = "GenerateButtonClicked" ->
         {[page |-> [page EXCEPT !.oc_text = Some(t)], config |-> cfg, panic |-> FALSE] :
            t \in OcTexts}
    [] message.kind = "SaveButtonClicked" ->
         IF is_some(page.oc_text)
         THEN UNION {
                {[page |-> r.page, config |-> r.config, panic |-> FALSE] :
                   r \in save_characters(
                           [page EXCEPT !.saved_characters =
                              Append(@, SavedOC_new(unwrap(page.oc_text), now))], cfg)}
                : now \in OcTimes}
         ELSE {[page |-> page, config |-> cfg, panic |-> FALSE]}
    [] message.kind = "DeleteCharacter" ->
         IF message.index >= Len(page.saved_characters)
         THEN {[page |-> page, config |-> cfg, panic |-> TRUE]}
         ELSE UNION {
                IF r.result.ok
                THEN {[page |-> r.page, config |-> r.config, panic |-> FALSE]}
                ELSE {[page |-> l.page, config |-> l.config, panic |-> FALSE] :
                        l \in load_characters(r.page, r.config)}
                : r \in delete_character_at_index(page, cfg, message.index)}

-----------------------------------------------------------------------------
(* Dispatch loop: app.rs *)

\* enum Page
Pages == {"OCGenerator", "ProjectManager", "DiceRoller"}

\* the futures Task::perform schedules
InitTask == [kind |-> "SqliteDatabase::new", app_data |-> AppData_new]
LoadProjectsTask(ad) == [kind |-> "load_projects", app_data |-> ad]

\* a load_projects future whose query has returned and which has not yet
\* handed its result message to the runtime
LoadedTask(ad, msg) == [kind |-> "loaded", app_data |-> ad, held |-> msg]

\* AppModel::active_page: the Page stored with the active nav item
active_page(n) == n

\* AppModel::view: the page whose view is drawn; an active item without a Page
\* reaches the panic branch
AppModel_view(n) ==
  IF active_page(n) = None
  THEN [panic |-> TRUE, page |-> None]
  ELSE [panic |-> FALSE, page |-> active_page(n)]

\* AppModel::load_page_data: the messages of the Task it returns
load_page_data(n) ==
  IF active_page(n) = Some("OCGenerator") THEN <<Msg_OcGeneratorPage(OC_LoadData)>>
  ELSE IF active_page(n) = Some("ProjectManager") THEN <<Msg_ProjectManagerPage(PM_LoadData)>>
  ELSE <<>>

\* what one handler of the loop did: the fields of AppModel and the settings
\* store it left, the futures and messages of the Task it returned, and whether
\* it unwound
Effect(n, ad, pm, oc, cfg, performs, msgs, panic) ==
  [nav |-> n, app_data |-> ad, project_manager_page |-> pm, oc_generator_page |-> oc,
   config |-> cfg, performs |-> performs, msgs |-> msgs, panic |-> panic]

\* mutant: init that also loads the data of the startup page
AppModel_init_eager(cfg) ==
  Effect(Some("OCGenerator"), AppData_new, ProjectManagerPage_default,
         OcGeneratorPage_default, cfg, <<InitTask>>,
         load_page_data(Some("OCGenerator")), FALSE)

\* mutant: init that starts the storage initialization twice
AppModel_init_twice(cfg) ==
  Effect(Some("OCGenerator"), AppData_new, ProjectManagerPage_default,
         OcGeneratorPage_default, cfg, <<InitTask, InitTask>>, <<>>, FALSE)

\* AppModel::init: the nav bar with the OC generator item activated, the default
\* pages, no database, and the startup batch
AppModel_init(cfg) ==
  Effect(Some("OCGenerator"), AppData_new, ProjectManagerPage_default,
         OcGeneratorPage_default, cfg, <<InitTask>>, <<>>, FALSE)

\* mutant: on_nav_select that loads before activating the selected item
AppModel_on_nav_select_stale(n, ad, pm, oc, cfg, page) ==
  Effect(Some(page), ad, pm, oc, cfg, <<>>, load_page_data(n), FALSE)

\* mutant: selecting the item that is already active deactivates it
AppModel_on_nav_select_toggle(n, ad, pm, oc, cfg, page) ==
  IF n = Some(page)
  THEN Effect(None, ad, pm, oc, cfg, <<>>, load_page_data(None), FALSE)
  ELSE Effect(Some(page), ad, pm, oc, cfg, <<>>, load_page_data(Some(page)), FALSE)

\* AppModel::on_nav_select
AppModel_on_nav_select(n, ad, pm, oc, cfg, page) ==
  Effect(Some(page), ad, pm, oc, cfg, <<>>, load_page_data(Some(page)), FALSE)

\* mutant: a load result applied to whichever page is active when it arrives
handle_project_manager_message_by_active(n, ad, pm, oc, cfg, message) ==
  IF message.kind = "LoadData"
  THEN Effect(n, ad, pm, oc, cfg, <<LoadProjectsTask(ad)>>, <<>>, FALSE)
  ELSE IF message.kind = "DataLoaded" /\ n = Some("OCGenerator") /\ message.result.ok
  THEN Effect(n, ad, pm, [oc EXCEPT !.saved_characters = message.result.val], cfg,
              <<>>, <<>>, FALSE)
  ELSE Effect(n, ad, ProjectManagerPage_update(pm, message).page, oc, cfg,
              <<>>, <<>>, FALSE)

\* AppModel::handle_project_manager_message: LoadData schedules the load with a
\* clone of app_data; every other variant goes to the page and the Task the page
\* returns is dropped
handle_project_manager_message(n, ad, pm, oc, cfg, message) ==
  IF message.kind = "LoadData"
  THEN Effect(n, ad, pm, oc, cfg, <<LoadProjectsTask(ad)>>, <<>>, FALSE)
  ELSE Effect(n, ad, ProjectManagerPage_update(pm, message).page, oc, cfg,
              <<>>, <<>>, FALSE)

\* mutant: the load after initialization goes to the startup page
update_DatabaseInitialized_startup_page(n, ad, pm, oc, cfg, result) ==
  IF result.ok
  THEN Effect(n, AppData_set_database(ad, result.val), pm, oc, cfg,
              <<>>, load_page_data(Some("OCGenerator")), FALSE)
  ELSE Effect(n, ad, pm, oc, cfg, <<>>, <<>>, FALSE)

\* mutant: a failed initialization is tried again
update_DatabaseInitialized_retry(n, ad, pm, oc, cfg, result) ==
  IF result.ok
  THEN Effect(n, AppData_set_database(ad, result.val), pm, oc, cfg,
              <<>>, load_page_data(n), FALSE)
  ELSE Effect(n, ad, pm, oc, cfg, <<InitTask>>, <<>>, FALSE)

\* mutant: the handle is installed and no page load follows
update_DatabaseInitialized_no_reload(n, ad, pm, oc, cfg, result) ==
  IF result.ok
  THEN Effect(n, AppData_set_database(ad, result.val), pm, oc, cfg, <<>>, <<>>, FALSE)
  ELSE Effect(n, ad, pm, oc, cfg, <<>>, <<>>, FALSE)

\* AppModel::update, DatabaseInitialized arm
update_DatabaseInitialized(n, ad, pm, oc, cfg, result) ==
  IF result.ok
  THEN Effect(n, AppData_set_database(ad, result.val), pm, oc, cfg,
              <<>>, load_page_data(n), FALSE)
  ELSE Effect(n, ad, pm, oc, cfg, <<>>, <<>>, FALSE)

\* mutant: OC generator messages are dropped while no handle is installed
AppModel_update_gated(n, ad, pm, oc, cfg, message) ==
  CASE message.tag = "DatabaseInitialized" ->
         {update_DatabaseInitialized(n, ad, pm, oc, cfg, message.result)}
    [] message.tag = "OcGeneratorPage" ->
         IF AppData_has_database(ad)
         THEN {Effect(n, ad, pm, r.page, r.config, <<>>, <<>>, r.panic) :
                 r \in OcGeneratorPage_update(oc, cfg, message.msg)}
         ELSE {Effect(n, ad, pm, oc, cfg, <<>>, <<>>, FALSE)}
    [] message.tag = "ProjectManagerPage" ->
         {handle_project_manager_message(n, ad, pm, oc, cfg, message.msg)}
    [] OTHER ->
         {Effect(n, ad, pm, oc, cfg, <<>>, <<>>, FALSE)}

\* AppModel::update: every way the handler can end
AppModel_update(n, ad, pm, oc, cfg, message) ==
  CASE message.tag = "DatabaseInitialized" ->
         {update_DatabaseInitialized(n, ad, pm, oc, cfg, message.result)}
    [] message.tag = "OcGeneratorPage" ->
         {Effect(n, ad, pm, r.page, r.config, <<>>, <<>>, r.panic) :
            r \in OcGeneratorPage_update(oc, cfg, message.msg)}
    [] message.tag = "ProjectManagerPage" ->
         {handle_project_manager_message(n, ad, pm, oc, cfg, message.msg)}
    [] OTHER ->
         {Effect(n, ad, pm, oc, cfg, <<>>, <<>>, FALSE)}

\* mutant: a load reads the AppData of the loop when it runs instead of the
\* clone it was scheduled with
task_outcomes_shared(task, st) ==
  IF task.kind = "SqliteDatabase::new"
  THEN {[panic |-> FALSE, store |-> r.store,
         msg |-> Msg_DatabaseInitialized(map_err_to_string(r.result))] :
          r \in SqliteDatabase_new(st)}
  ELSE {[panic |-> o.panic, store |-> o.store,
         msg |-> Msg_ProjectManagerPage(PM_DataLoaded(map_err_to_string(o.result)))] :
          o \in AppData_load_projects(app_data, st)}

\* the result message a finished future maps to, with the store it left; app.rs
\* names the load result PM::ProjectsLoaded, the variant the page enum declares
\* and handles as DataLoaded
task_outcomes(task, st) ==
  IF task.kind = "SqliteDatabase::new"
  THEN {[panic |-> FALSE, store |-> r.store,
         msg |-> Msg_DatabaseInitialized(map_err_to_string(r.result))] :
          r \in SqliteDatabase_new(st)}
  ELSE IF task.kind = "loaded"
  THEN {[panic |-> FALSE, store |-> st, msg |-> task.held]}
  ELSE {[panic |-> o.panic, store |-> o.store,
         msg |-> Msg_ProjectManagerPage(PM_DataLoaded(map_err_to_string(o.result)))] :
          o \in AppData_load_projects(task.app_data, st)}

-----------------------------------------------------------------------------
(* The running application *)

\* k rows left by earlier runs, all stamped in the same second
seeded(k) ==
  [EmptyStore EXCEPT !.projects = [i \in 1..k |-> Project(i, "Alpha", None, 1)]]

\* the store file found at startup
InitialStores == {seeded(0), seeded(1)}

\* the settings store found at startup: key never written, or an earlier list
InitialConfigs ==
  {None, Some(<<>>), Some(<<SavedOC_new("A shy fox sparkle", 1)>>)}

\* what the last step handled, beside a message of enum Message: nothing, the
\* page of the selected nav item, or the AppData operation called
NoMsg == [tag |-> "none"]
Selected(page) == [tag |-> "nav", page |-> page]
Called(op) == [tag |-> "call", op |-> op]

NoCall == [op |-> "none"]

\* the process before AppModel::init, on one of the given stores
InitOn(stores, configs) ==
  /\ started = FALSE
  /\ panicked = FALSE
  /\ nav = None
  /\ app_data = AppData_new
  /\ project_manager_page = ProjectManagerPage_default
  /\ oc_generator_page = OcGeneratorPage_default
  /\ tasks = <<>>
  /\ queue = <<>>
  /\ store \in stores
  /\ config \in configs
  /\ svc = NoCall
  /\ last = [op |-> "none", msg |-> NoMsg]

Init == InitOn(InitialStores, InitialConfigs)

\* a handler's effect on the state of the loop
Apply(eff, rest) ==
  /\ nav' = eff.nav
  /\ app_data' = eff.app_data
  /\ project_manager_page' = eff.project_manager_page
  /\ oc_generator_page' = eff.oc_generator_page
  /\ config' = eff.config
  /\ panicked' = eff.panic
  /\ tasks' = tasks \o eff.performs
  /\ queue' = rest \o eff.msgs

Running == started /\ ~panicked
Pending == Len(tasks) + Len(queue)

\* the runtime calls AppModel::init once and spawns the startup batch
Boot ==
  /\ ~started
  /\ started' = TRUE
  /\ Apply(AppModel_init(config), queue)
  /\ last' = [op |-> "init", msg |-> NoMsg]
  /\ UNCHANGED <<store, svc>>

\* the user selects a nav item
NavSelect ==
  /\ Running
  /\ Pending < MaxPending
  /\ \E page \in Pages :
       /\ Apply(AppModel_on_nav_select(nav, app_data, project_manager_page,
                                       oc_generator_page, config, page), queue)
       /\ last' = [op |-> "on_nav_select", msg |-> Selected(page)]
  /\ UNCHANGED <<started, store, svc>>

\* mutant: a finished future stays scheduled and hands over its result again
CompleteAt_again(i) ==
  /\ Running
  /\ i \in DOMAIN tasks
  /\ \E o \in task_outcomes(tasks[i], store) :
       /\ tasks' = tasks
       /\ queue' = IF o.panic THEN queue ELSE Append(queue, o.msg)
       /\ store' = o.store
       /\ last' = [op |-> "complete", msg |-> o.msg]
  /\ UNCHANGED <<started, panicked, nav, app_data, project_manager_page,
                 oc_generator_page, config, svc>>

\* the i-th scheduled future finishes on the executor and its one result
\* message is handed to the runtime
CompleteAt(i) ==
  /\ Running
  /\ i \in DOMAIN tasks
  /\ \E o \in task_outcomes(tasks[i], store) :
       /\ tasks' = [j \in 1..(Len(tasks) - 1) |-> IF j < i THEN tasks[j] ELSE tasks[j + 1]]
       /\ queue' = IF o.panic THEN queue ELSE Append(queue, o.msg)
       /\ store' = o.store
       /\ last' = [op |-> "complete", msg |-> o.msg]
  /\ UNCHANGED <<started, panicked, nav, app_data, project_manager_page,
                 oc_generator_page, config, svc>>

\* futures finish in any order
Complete == \E i \in 1..MaxPending : CompleteAt(i)

\* the runtime applies the oldest delivered message
Deliver ==
  /\ Running
  /\ queue /= <<>>
  /\ \E eff \in AppModel_update(nav, app_data, project_manager_page,
                                oc_generator_page, config, Head(queue)) :
       Apply(eff, Tail(queue))
  /\ last' = [op |-> "deliver", msg |-> Head(queue)]
  /\ UNCHANGED <<started, store, svc>>

\* messages the widgets of the project manager view emit, and the message of
\* the subscription channel
WidgetMessages ==
  {Msg_SubscriptionChannel, Msg_ProjectManagerPage(PM_ToggleCreateProject)}
  \cup {Msg_ProjectManagerPage(PM_CloseToast(id)) : id \in 1..MaxToasts}

\* the user acts on a widget and the runtime applies its message
Widget ==
  /\ Running
  /\ \E m \in WidgetMessages :
       /\ \E eff \in AppModel_update(nav, app_data, project_manager_page,
                                     oc_generator_page, config, m) :
            Apply(eff, queue)
       /\ last' = [op |-> "widget", msg |-> m]
  /\ UNCHANGED <<started, store, svc>>

\* messages the widgets of the OC generator view emit
OcWidgetMessages ==
  {Msg_OcGeneratorPage(OC_GenerateButtonClicked)}
  \cup {Msg_OcGeneratorPage(OC_SaveButtonClicked) :
          x \in {y \in {1} : Len(oc_generator_page.saved_characters) < MaxSaved}}
  \cup {Msg_OcGeneratorPage(OC_DeleteCharacter(i)) : i \in 0..MaxSaved}

OcWidget ==
  /\ Running
  /\ \E m \in OcWidgetMessages :
       /\ \E eff \in AppModel_update(nav, app_data, project_manager_page,
                                     oc_generator_page, config, m) :
            Apply(eff, queue)
       /\ last' = [op |-> "widget", msg |-> m]
  /\ UNCHANGED <<started, store, svc>>

\* page variants update routes although the arms of
\* handle_project_manager_message that would schedule or produce them are
\* commented out: a write request and the result of a creation
RoutedMessages ==
  {Msg_ProjectManagerPage(PM_CreateProject(name, None)) : name \in Names}
  \cup {Msg_ProjectManagerPage(PM_DeleteProject(1))}
  \cup {Msg_ProjectManagerPage(PM_ProjectCreated(r)) :
          r \in {x \in {Ok(Project(1, "Alpha", None, 1)), Err(to_string(sqlx_error))} :
                   project_manager_page.toasts.next <= MaxToasts}}

Routed ==
  /\ Running
  /\ \E m \in RoutedMessages :
       /\ \E eff \in AppModel_update(nav, app_data, project_manager_page,
                                     oc_generator_page, config, m) :
            Apply(eff, queue)
       /\ last' = [op |-> "routed", msg |-> m]
  /\ UNCHANGED <<started, store, svc>>

\* the application as app.rs runs it: no view or task of app.rs produces the
\* routed variants
Next == Boot \/ NavSelect \/ Complete \/ Deliver

Spec == Init /\ [][Next]_vars

\* the executor polls every spawned future until it finishes, and the runtime
\* keeps applying the messages handed to it
Fairness ==
  /\ \A i \in 1..MaxPending : WF_vars(CompleteAt(i))
  /\ WF_vars(Deliver)

SpecFair == Spec /\ Fairness

\* what a start can find on disk: nothing, the directory alone, the file with
\* any number of migration steps applied, or a store with rows
Disks ==
  {Disk(FALSE, FALSE, 0), Disk(TRUE, FALSE, 0)}
  \cup {Disk(TRUE, TRUE, k) : k \in 0..MaxMigrations}
  \cup {seeded(1)}

\* the application started on any of these
InitStartup == InitOn(Disks, {None})

SpecStartup == InitStartup /\ [][Next]_vars

\* the application started on a store holding two projects of the same second,
\* which successive loads may list in either order
InitReload == InitOn({seeded(2)}, {None})

SpecReload == InitReload /\ [][Next]_vars

\* the query of the i-th scheduled load returns; the future holds the result
\* until the executor hands it over
ReadAt(i) ==
  /\ Running
  /\ i \in DOMAIN tasks
  /\ tasks[i].kind = "load_projects"
  /\ \E o \in AppData_load_projects(tasks[i].app_data, store) :
       /\ ~o.panic
       /\ tasks' = [tasks EXCEPT ![i] =
                      LoadedTask(tasks[i].app_data,
                                 Msg_ProjectManagerPage(
                                   PM_DataLoaded(map_err_to_string(o.result))))]
       /\ store' = o.store
  /\ last' = [op |-> "read", msg |-> NoMsg]
  /\ UNCHANGED <<started, panicked, nav, app_data, project_manager_page,
                 oc_generator_page, queue, config, svc>>

Read == \E i \in 1..MaxPending : ReadAt(i)

\* a project row is written to the store through the installed handle while
\* the loop runs (no handler of app.rs schedules the write itself)
StoreWrite ==
  /\ Running
  /\ AppData_has_database(app_data)
  /\ Len(store.projects) < MaxProjects
  /\ \E o \in AppData_create_project(app_data, store, "Alpha", None) :
       /\ o.result.ok
       /\ store' = o.store
  /\ last' = [op |-> "write", msg |-> NoMsg]
  /\ UNCHANGED <<started, panicked, nav, app_data, project_manager_page,
                 oc_generator_page, tasks, queue, config, svc>>

\* the loop with loads whose read and hand-over are separate steps, on a store
\* that changes meanwhile
NextOverlap == Boot \/ NavSelect \/ Complete \/ Deliver \/ Read \/ StoreWrite

InitOverlap == InitOn({seeded(0)}, {None})

SpecOverlap == InitOverlap /\ [][NextOverlap]_vars

\* the loop with every project manager message update accepts
NextUpdate == Boot \/ NavSelect \/ Complete \/ Deliver \/ Widget \/ Routed

InitUpdate ==
  /\ Init
  /\ store = seeded(1)
  /\ config = Some(<<SavedOC_new("A shy fox sparkle", 1)>>)

SpecUpdate == InitUpdate /\ [][NextUpdate]_vars

\* the loop with the messages of the OC generator view, on the startup page
\* and started on an empty relational store
NextOc == Boot \/ Complete \/ Deliver \/ OcWidget

InitOc ==
  /\ Init
  /\ store = seeded(0)

SpecOc == InitOc /\ [][NextOc]_vars

-----------------------------------------------------------------------------
(* The data-access service called directly, as a task would call it *)

SvcInit ==
  /\ started = FALSE
  /\ panicked = FALSE
  /\ nav = None
  /\ app_data = AppData_new
  /\ project_manager_page = ProjectManagerPage_default
  /\ oc_generator_page = OcGeneratorPage_default
  /\ tasks = <<>>
  /\ queue = <<>>
  /\ store = EmptyStore
  /\ config = None
  /\ svc = NoCall
  /\ last = [op |-> "none", msg |-> NoMsg]

\* one call of an AppData operation: its result and the store it leaves
SvcDo(op, args, outcomes) ==
  /\ \E o \in outcomes :
       /\ svc' = [op |-> op, args |-> args, handle |-> is_some(app_data.db),
                  panic |-> o.panic, result |-> o.result, engine |-> o.engine]
       /\ store' = o.store
  /\ last' = [op |-> "call", msg |-> Called(op)]
  /\ UNCHANGED <<started, panicked, nav, app_data, project_manager_page,
                 oc_generator_page, tasks, queue, config>>

SvcSetDatabase ==
  /\ ~is_some(app_data.db)
  /\ app_data' = AppData_set_database(app_data, "pool")
  /\ last' = [op |-> "set_database", msg |-> NoMsg]
  /\ UNCHANGED <<started, panicked, nav, project_manager_page, oc_generator_page,
                 tasks, queue, store, config, svc>>

SvcLoadProjects == SvcDo("load_projects", <<>>, AppData_load_projects(app_data, store))

SvcCreateProject ==
  /\ Len(store.projects) < MaxProjects
  /\ \E name \in Names, d \in Descriptions :
       SvcDo("create_project", <<name, d>>, AppData_create_project(app_data, store, name, d))

SvcDeleteProject ==
  \E id \in 1..MaxProjects :
    SvcDo("delete_project", <<id>>, AppData_delete_project(app_data, store, id))

SvcCreateTag ==
  \E name \in Names : SvcDo("create_tag", <<name>>, AppData_create_tag(app_data, store, name))

SvcGetAllTags == SvcDo("get_all_tags", <<>>, AppData_get_all_tags(app_data, store))

SvcAddTagToProject ==
  \E id \in 1..MaxProjects :
    SvcDo("add_tag_to_project", <<id, 1>>, AppData_add_tag_to_project(app_data, store, id, 1))

SvcAddFeature ==
  \E id \in 1..MaxProjects :
    SvcDo("add_feature", <<id, "d">>, AppData_add_feature(app_data, store, id, "d"))

SvcGetProjectFeatures ==
  \E id \in 1..MaxProjects :
    SvcDo("get_project_features", <<id>>, AppData_get_project_features(app_data, store, id))

SvcNext ==
  \/ SvcSetDatabase \/ SvcLoadProjects \/ SvcCreateProject \/ SvcDeleteProject
  \/ SvcCreateTag \/ SvcGetAllTags \/ SvcAddTagToProject \/ SvcAddFeature
  \/ SvcGetProjectFeatures

SpecSvc == SvcInit /\ [][SvcNext]_vars


\* the new-project form used directly: the user types into a field or cancels
FormEdit ==
  /\ \E m \in {NP_UpdateName(n) : n \in Names}
              \cup {NP_UpdateDescription(d) : d \in {"", "d"}}
              \cup {NP_Cancel} :
       /\ project_manager_page' =
            [project_manager_page EXCEPT
               !.new_project_form = NewProjectPage_update(@, m)]
       /\ last' = [op |-> "form", msg |-> m]
  /\ UNCHANGED <<started, panicked, nav, app_data, oc_generator_page, tasks, queue,
                 store, config, svc>>

\* the user presses the save button of the form; the form handles its own
\* message as any other
FormSave ==
  /\ LET m == NewProjectPage_save_button(project_manager_page.new_project_form)
     IN  /\ project_manager_page' =
              [project_manager_page EXCEPT
                 !.new_project_form = NewProjectPage_update(@, m)]
         /\ last' = [op |-> "form", msg |-> m]
  /\ UNCHANGED <<started, panicked, nav, app_data, oc_generator_page, tasks, queue,
                 store, config, svc>>

\* the form and the data-access service, each used directly
NextForm == FormEdit \/ FormSave \/ SvcNext

SpecForm == SvcInit /\ [][NextForm]_vars

-----------------------------------------------------------------------------
(* Properties *)

SeqRange(q) == {q[i] : i \in DOMAIN q}

LoadDataOc == Msg_OcGeneratorPage(OC_LoadData)
LoadDataPm == Msg_ProjectManagerPage(PM_LoadData)
NotInitializedText == "Database not initialized"

IsLoadRequest(m) == m = LoadDataOc \/ m = LoadDataPm
IsLoadTask(t) == t.kind \in {"load_projects", "loaded"}
IsInitTask(t) == t.kind = "SqliteDatabase::new"
IsDataLoaded(m) == m.tag = "ProjectManagerPage" /\ m.msg.kind = "DataLoaded"
IsDatabaseInitialized(m) == m.tag = "DatabaseInitialized"
InitTaskCount(ts) == Cardinality({i \in DOMAIN ts : IsInitTask(ts[i])})

\* C1: no page load request (a LoadData message, or the load_projects task it
\* triggers) exists before AppData holds a storage handle: a pending LoadData
\* implies the handle is installed, and every load task carries a handle
C1_NoLoadBeforeHandle ==
  /\ (\E m \in SeqRange(queue) : IsLoadRequest(m)) => is_some(app_data.db)
  /\ \A t \in SeqRange(tasks) : IsLoadTask(t) => is_some(t.app_data.db)

\* C2: init schedules exactly one SqliteDatabase::new task and no page load,
\* and no step after init adds another initialization task
C2_OneInitTaskNoLoad ==
  [][/\ (~started /\ started') => (tasks' = <<InitTask>> /\ queue' = <<>>)
     /\ started => InitTaskCount(tasks') <= InitTaskCount(tasks)]_vars

C2_Witness ==
  /\ last.op = "init"
  /\ tasks = <<InitTask>>
  /\ queue = <<>>

\* the load the loop owes a page: one LoadData for a page that needs data
ExpectedLoad(page) ==
  CASE page = "OCGenerator" -> <<LoadDataOc>>
    [] page = "ProjectManager" -> <<LoadDataPm>>
    [] page = "DiceRoller" -> <<>>

\* C3: applying DatabaseInitialized(Ok(handle)) installs the handle in that
\* step and schedules the load of the page active at that moment
C3_InitOkLoadsActivePage ==
  [][(last'.op = "deliver" /\ IsDatabaseInitialized(last'.msg) /\ last'.msg.result.ok)
       => /\ app_data'.db = Some(last'.msg.result.val)
          /\ nav' = nav
          /\ queue' = Tail(queue) \o ExpectedLoad(unwrap(nav))
          /\ tasks' = tasks]_vars

C3_Witness ==
  /\ last.op = "deliver"
  /\ IsDatabaseInitialized(last.msg)
  /\ last.msg.result.ok
  /\ nav = Some("ProjectManager")
  /\ is_some(app_data.db)
  /\ queue = <<LoadDataPm>>

\* initialization is over and left no handle
InitFailed ==
  /\ started
  /\ InitTaskCount(tasks) = 0
  /\ \A m \in SeqRange(queue) : ~IsDatabaseInitialized(m)
  /\ ~is_some(app_data.db)

\* C4: once DatabaseInitialized(Err) is applied the handle is absent then and
\* ever after, and every project load result is the "Database not initialized"
\* error, with the loop still running
C4_InitErrLeavesHandleAbsent ==
  [][/\ (last'.op = "deliver" /\ IsDatabaseInitialized(last'.msg) /\ ~last'.msg.result.ok)
          => InitFailed'
     /\ InitFailed => InitFailed'
     /\ InitFailed' =>
          /\ ~panicked'
          /\ \A m \in SeqRange(queue') :
               IsDataLoaded(m) => m.msg.result = Err(NotInitializedText)]_vars

C4_Witness ==
  /\ InitFailed
  /\ last.op = "complete"
  /\ IsDataLoaded(last.msg)
  /\ last.msg.msg.result = Err(NotInitializedText)
  /\ last.msg \in SeqRange(queue)
  /\ ~panicked

\* C5: without a handle every AppData operation returns the not-initialized
\* error, does not enter the storage engine, and leaves store and AppData as
\* they were
C5_NoHandleNotInitialized ==
  [][(last'.op = "call" /\ ~is_some(app_data.db))
       => /\ svc'.result = Err(anyhow(NotInitializedText))
          /\ ~svc'.engine
          /\ ~svc'.panic
          /\ store' = store
          /\ app_data' = app_data]_vars

C5_Witness ==
  /\ last.op = "call"
  /\ svc.op = "create_project"
  /\ ~svc.handle
  /\ svc.result = Err(anyhow(NotInitializedText))
  /\ store = EmptyStore

\* C6: a page switch schedules exactly one LoadData for the newly active page
\* when it needs data and nothing otherwise, and one project manager LoadData
\* becomes exactly one load_projects task
C6_NavSelectOneLoad ==
  [][/\ last'.op = "on_nav_select"
          => /\ nav' = Some(last'.msg.page)
             /\ queue' = queue \o ExpectedLoad(last'.msg.page)
             /\ tasks' = tasks
     /\ (last'.op = "deliver" /\ last'.msg = LoadDataPm)
          => /\ tasks' = Append(tasks, LoadProjectsTask(app_data))
             /\ queue' = Tail(queue)]_vars

C6_Witness ==
  /\ last.op = "deliver"
  /\ last.msg = LoadDataPm
  /\ is_some(app_data.db)
  /\ nav = Some("ProjectManager")
  /\ tasks = <<LoadProjectsTask(app_data)>>
  /\ queue = <<>>

\* C7: a result is applied to the page it was issued for, whatever page is
\* active: a project manager message leaves the OC generator page and the
\* settings store alone, an OC generator message leaves the project manager
\* page alone, and a successful load result becomes the project manager's list
C7_ResultRoutedToOwnPage ==
  [][last'.op = "deliver" =>
       /\ last'.msg.tag = "ProjectManagerPage"
            => (oc_generator_page' = oc_generator_page /\ config' = config)
       /\ last'.msg.tag = "OcGeneratorPage"
            => project_manager_page' = project_manager_page
       /\ (IsDataLoaded(last'.msg) /\ last'.msg.msg.result.ok)
            => project_manager_page'.projects = last'.msg.msg.result.val]_vars

C7_Witness ==
  /\ last.op = "deliver"
  /\ IsDataLoaded(last.msg)
  /\ last.msg.msg.result.ok
  /\ nav = Some("OCGenerator")
  /\ project_manager_page.projects /= <<>>
  /\ oc_generator_page.saved_characters /= <<>>
  /\ \A i \in DOMAIN oc_generator_page.saved_characters :
       oc_generator_page.saved_characters[i].text \in OcTexts

\* C8: applying ProjectCreated(Ok) schedules a reload (LoadData) of the
\* project manager page
C8_CreatedSchedulesReload ==
  [][(last'.op = "routed" /\ last'.msg.msg.kind = "ProjectCreated"
        /\ last'.msg.msg.result.ok)
       => queue' = Append(queue, LoadDataPm)]_vars

\* C9: a CreateProject or DeleteProject request schedules exactly one task
\* that runs the matching AppData operation
C9_WriteRequestSchedulesTask ==
  [][(last'.op = "routed" /\ last'.msg.msg.kind \in {"CreateProject", "DeleteProject"})
       => Len(tasks') = Len(tasks) + 1]_vars

\* C10: with a handle installed no AppData operation unwinds: each returns Ok
\* or Err
C10_NoOperationPanics ==
  (last.op = "call" /\ svc.handle) => ~svc.panic

\* C11: the storage handle of AppData goes from absent to present at most
\* once: once present no step replaces or resets it, and no further
\* DatabaseInitialized(Ok) is applied to install another one
C11_HandleInstalledOnce ==
  [][is_some(app_data.db)
       => /\ app_data' = app_data
          /\ ~(last'.op = "deliver" /\ IsDatabaseInitialized(last'.msg)
                 /\ last'.msg.result.ok)]_vars

C11_Witness ==
  /\ is_some(app_data.db)
  /\ last.op = "deliver"
  /\ IsDataLoaded(last.msg)
  /\ InitTaskCount(tasks) = 0
  /\ nav = Some("ProjectManager")


\* a message applied to a page state container
IsPageMessage(m) == m.tag \in {"OcGeneratorPage", "ProjectManagerPage"}

\* C12: applying a message to a page changes only that page's in-memory
\* state: the step leaves the settings store and the relational store as they
\* were
C12_PagesPerformNoIO ==
  [][(last'.op \in {"deliver", "widget"} /\ IsPageMessage(last'.msg))
       => (config' = config /\ store' = store)]_vars

\* every message of enum OCPageMessage, with the indices a delete can carry
OcMessages ==
  {Msg_OcGeneratorPage(OC_LoadData), Msg_OcGeneratorPage(OC_GenerateButtonClicked),
   Msg_OcGeneratorPage(OC_SaveButtonClicked)}
  \cup {Msg_OcGeneratorPage(OC_DeleteCharacter(i)) : i \in 0..MaxSaved}

\* every way update can end on message m in the current state if AppData were ad
UpdateOutcomes(ad, m) ==
  {[e EXCEPT !.app_data = None] :
     e \in AppModel_update(nav, ad, project_manager_page, oc_generator_page, config, m)}

IsResult(m) == IsDatabaseInitialized(m) \/ IsDataLoaded(m)
ResultCount(q) == Cardinality({i \in DOMAIN q : IsResult(q[i])})
LoadTaskCount(ts) == Cardinality({i \in DOMAIN ts : IsLoadTask(ts[i])})

\* one future of ts finished with message m: ts without that future
Finished(ts, m) ==
  {[j \in 1..(Len(ts) - 1) |-> IF j < i THEN ts[j] ELSE ts[j + 1]] :
     i \in {k \in DOMAIN ts : IsInitTask(ts[k]) <=> IsDatabaseInitialized(m)}}

\* C15: a scheduled future hands over exactly one result message: a finishing
\* step takes one future off the executor and enqueues one result of its kind,
\* no other step adds a result message, and under fair scheduling a pending
\* initialization and a pending load each lead to their result being enqueued
C15_OneResultPerTask ==
  /\ [][/\ last'.op = "complete"
             => /\ IsResult(last'.msg)
                /\ tasks' \in Finished(tasks, last'.msg)
                /\ queue' = Append(queue, last'.msg)
        /\ last'.op /= "complete"
             => /\ ResultCount(queue') <= ResultCount(queue)
                /\ ResultCount(queue') + Len(tasks') <= ResultCount(queue) + Len(tasks) + 1]_vars
  /\ (InitTaskCount(tasks) = 1) ~> (\E m \in SeqRange(queue) : IsDatabaseInitialized(m))
  /\ (LoadTaskCount(tasks) > 0) ~> (\E m \in SeqRange(queue) : IsDataLoaded(m))

C15_Witness ==
  /\ last.op = "complete"
  /\ IsDataLoaded(last.msg)
  /\ LoadTaskCount(tasks) = 1
  /\ ResultCount(queue) = 1
  /\ queue[Len(queue)] = last.msg

\* the result of the last call, when it was a successful op
Returned(op) == last.op = "call" /\ svc.op = op /\ svc.result.ok

\* the projects were created with pairwise distinct names
DistinctNames(rows) ==
  \A i, j \in DOMAIN rows : i /= j => rows[i].name /= rows[j].name

\* C16: after creations with distinct names a successful get_all_projects
\* returns exactly the stored projects, newest creation first (also among rows
\* stamped in the same second), each with empty tag and feature sequences; an
\* empty store gives the empty sequence
C16_ListNewestFirst ==
  (Returned("load_projects") /\ DistinctNames(store.projects)) =>
    LET v == svc.result.val
        n == Len(store.projects)
    IN  /\ Len(v) = n
        /\ \A i \in 1..n : v[i] = <<store.projects[n + 1 - i], <<>>, <<>>>>

\* C17: a successful create_project(name, description) returns the stored
\* project: its id is positive and differs from the id of every earlier
\* project, its name and description are the arguments, it is a row of the
\* store, and every successful list that follows holds a triple whose project
\* has that id and name
C17_CreateReturnsStoredProject ==
  /\ [][(last'.op = "call" /\ svc'.op = "create_project" /\ svc'.result.ok)
          => LET p == svc'.result.val
             IN  /\ p.id > 0
                 /\ \A i \in DOMAIN store.projects : store.projects[i].id /= p.id
                 /\ p.name = svc'.args[1]
                 /\ p.description = svc'.args[2]
                 /\ p \in SeqRange(store'.projects)]_vars
  /\ [](Returned("load_projects")
          => \A i \in DOMAIN store.projects :
               \E k \in DOMAIN svc.result.val :
                 /\ svc.result.val[k][1].id = store.projects[i].id
                 /\ svc.result.val[k][1].name = store.projects[i].name)
  /\ [][Len(store.projects) <= Len(store'.projects)
          /\ \A i \in DOMAIN store.projects : store'.projects[i] = store.projects[i]]_vars

C17_Witness ==
  /\ Returned("create_project")
  /\ svc.args = <<"Beta", Some("d")>>
  /\ svc.result.val.id = 2
  /\ svc.result.val.name = "Beta"
  /\ Len(store.projects) = 2

\* C18: a create_project that returns an error leaves no new project row: the
\* store after the failed call is the store before it
C18_FailedCreateWritesNothing ==
  [][(last'.op = "call" /\ svc'.op = "create_project" /\ ~svc'.result.ok)
       => store' = store]_vars

\* the last step applied OC generator message m
OcApplied(m) == last'.op \in {"deliver", "widget"} /\ last'.msg = Msg_OcGeneratorPage(m)

\* C19: a SaveButtonClicked with a generated text adds exactly one entry, that
\* text, at the end of the list and leaves the earlier entries unchanged; its
\* write stores the whole list (or fails and stores nothing); and a reload
\* makes the list the stored one (or fails and leaves it), so after N appends
\* whose writes succeed a reload yields the same N entries in the same order
C19_SavedRoundTrip ==
  [][LET saved == oc_generator_page.saved_characters
         saved2 == oc_generator_page'.saved_characters
     IN  /\ (OcApplied(OC_SaveButtonClicked) /\ is_some(oc_generator_page.oc_text))
              => /\ Len(saved2) = Len(saved) + 1
                 /\ \A i \in DOMAIN saved : saved2[i] = saved[i]
                 /\ saved2[Len(saved2)].text = unwrap(oc_generator_page.oc_text)
                 /\ config' = Some(saved2) \/ config' = config
                 /\ config' = Some(saved2)
                      => \A r \in load_characters(oc_generator_page', config') :
                           r.result.ok => r.page.saved_characters = saved2
         /\ OcApplied(OC_LoadData)
              => /\ config' = config
                 /\ saved2 = saved \/ config = Some(saved2)]_vars

C19_Witness ==
  /\ last.op = "deliver"
  /\ last.msg = LoadDataOc
  /\ config = Some(oc_generator_page.saved_characters)
  /\ Len(oc_generator_page.saved_characters) = 2
  /\ oc_generator_page.saved_characters[1].text = "A tall cat ponytail"
  /\ oc_generator_page.saved_characters[2].text = "A shy fox sparkle"

\* list v without the element at 0-based position k
Without(v, k) == SubSeq(v, 1, k) \o SubSeq(v, k + 2, Len(v))

OcMutated ==
  \/ OcApplied(OC_SaveButtonClicked) /\ is_some(oc_generator_page.oc_text)
  \/ \E k \in 0..MaxSaved :
       OcApplied(OC_DeleteCharacter(k)) /\ k < Len(oc_generator_page.saved_characters)

\* C21: every mutation of the saved list writes the list as a whole: after a
\* SaveButtonClicked or DeleteCharacter the value stored under the characters
\* key is either untouched (the write failed) or exactly the complete list in
\* memory, and a write of the list in memory that succeeds stores exactly
\* that list
C21_WholeListWritten ==
  [][OcMutated =>
       /\ config' /= config => config' = Some(oc_generator_page'.saved_characters)
       /\ \A r \in save_characters(oc_generator_page', config) :
            r.result.ok => r.config = Some(oc_generator_page'.saved_characters)]_vars

C21_Witness ==
  /\ last.op = "widget"
  /\ last.msg = Msg_OcGeneratorPage(OC_SaveButtonClicked)
  /\ Len(oc_generator_page.saved_characters) = 2
  /\ oc_generator_page.saved_characters[1] /= oc_generator_page.saved_characters[2]
  /\ config = Some(oc_generator_page.saved_characters)

\* directory, file and every migration step are in place
Ready(st) == st.dir /\ st.file /\ st.applied = MaxMigrations

Rows(st) == <<st.projects, st.project_tags, st.tags, st.features>>

\* C22: SqliteDatabase::new on a store whose directory, file and migrations
\* exist leaves the store as it was; it never changes rows; it returns Ok only
\* with every step done, so a failed step gives Err; its result reaches the
\* loop as one DatabaseInitialized message, and applying DatabaseInitialized(Err)
\* installs no handle
C22_StartupIdempotentFailFast ==
  [][/\ (last'.op = "complete" /\ IsDatabaseInitialized(last'.msg))
          => /\ Ready(store) => store' = store
             /\ Rows(store') = Rows(store)
             /\ last'.msg.result.ok => Ready(store')
             /\ queue' = Append(queue, last'.msg)
     /\ (last'.op = "deliver" /\ IsDatabaseInitialized(last'.msg)
           /\ ~last'.msg.result.ok)
          => (app_data' = app_data /\ ~is_some(app_data'.db))]_vars

C22_Witness ==
  /\ last.op = "deliver"
  /\ IsDatabaseInitialized(last.msg)
  /\ ~last.msg.result.ok
  /\ last.msg.result.err = to_string(migrate_error)
  /\ store = seeded(1)
  /\ ~is_some(app_data.db)

\* C23: a project's name is never empty: the save button of the new-project
\* form sends no CreateProject with an empty name, no create_project call is
\* made with one, and no stored project has one
C23_NameNonEmpty ==
  /\ (last.op = "form" /\ last.msg.kind = "CreateProject") => last.msg.name /= ""
  /\ (last.op = "call" /\ svc.op = "create_project" /\ svc.engine) => svc.args[1] /= ""
  /\ \A i \in DOMAIN store.projects : store.projects[i].name /= ""

\* the last step called op with a handle installed
CalledWithHandle(op) == last.op = "call" /\ svc.op = op /\ svc.handle

\* C24: delete_project(id) removes the project from later listings: after the
\* call returns no stored project has that id, so no listing holds a triple
\* with it
C24_DeleteRemovesProject ==
  CalledWithHandle("delete_project") =>
    /\ ~svc.panic
    /\ \A i \in DOMAIN store.projects : store.projects[i].id /= svc.args[1]

\* C25: add_tag_to_project(p, t), called once or twice, returns and leaves tag
\* t attached to project p exactly once
C25_AttachIdempotent ==
  CalledWithHandle("add_tag_to_project") =>
    /\ ~svc.panic
    /\ <<svc.args[1], svc.args[2]>> \in store.project_tags
    /\ Cardinality({i \in DOMAIN tags_of(store, svc.args[1]) :
                      tags_of(store, svc.args[1])[i].id = svc.args[2]}) = 1

\* C26: at most one project load is in flight at any time: a LoadData that
\* arrives while a load_projects task is scheduled does not schedule another
C26_NoRedundantLoad ==
  LoadTaskCount(tasks) <= 1

\* C27: the project read-model is recomputed on every load: applying a
\* successful load result makes the page's projects exactly the list it
\* carries, whatever the page held; and with a handle load_projects has
\* exactly the outcomes of the storage engine's get_all_projects
C27_ReadModelRecomputed ==
  /\ [][(last'.op = "deliver" /\ IsDataLoaded(last'.msg) /\ last'.msg.msg.result.ok)
          => project_manager_page'.projects = last'.msg.msg.result.val]_vars
  /\ [](is_some(app_data.db)
          => AppData_load_projects(app_data, store)
               = SqliteDatabase_get_all_projects(store))

C27_Witness ==
  /\ last.op = "deliver"
  /\ IsDataLoaded(last.msg)
  /\ last.msg.msg.result.ok
  /\ Len(project_manager_page.projects) = 2
  /\ project_manager_page.projects[1][1].id = 2
  /\ \E m \in SeqRange(queue) :
       /\ IsDataLoaded(m)
       /\ m.msg.result.ok
       /\ m.msg.result.val /= project_manager_page.projects

\* a project load is in flight: its task is scheduled or its result is waiting
\* to be applied
LoadInFlight ==
  LoadTaskCount(tasks) > 0 \/ \E m \in SeqRange(queue) : IsDataLoaded(m)

\* C28: is_loading of the project manager page is true whenever a project load
\* is in flight, for the first load, a reload and overlapping loads, and false
\* when a load result has been applied and no load is outstanding
C28_IsLoadingTracksLoads ==
  /\ LoadInFlight => project_manager_page.is_loading
  /\ (~LoadInFlight /\ last.op = "deliver" /\ IsDataLoaded(last.msg))
       => ~project_manager_page.is_loading

\* DatabaseInitialized(Ok) has just been applied with the project manager
\* active and showing the not-initialized failure of an earlier load
RecoveryDue ==
  /\ last.op = "deliver"
  /\ IsDatabaseInitialized(last.msg)
  /\ last.msg.result.ok
  /\ nav = Some("ProjectManager")
  /\ project_manager_page.error_message
       = Some(format("Failed to load projects: ", NotInitializedText))

\* the result of a load that ran with a handle has just been applied: the page
\* holds the store's projects, or the text of the query's own failure
Recovered ==
  /\ last.op = "deliver"
  /\ IsDataLoaded(last.msg)
  /\ last.msg.msg.result /= Err(NotInitializedText)
  /\ ~project_manager_page.is_loading
  /\ last.msg.msg.result.ok
       => /\ project_manager_page.projects = last.msg.msg.result.val
          /\ Outcome(Ok(project_manager_page.projects), store)
               \in SqliteDatabase_get_all_projects(store)
  /\ ~last.msg.msg.result.ok
       => project_manager_page.error_message
            = Some(format("Failed to load projects: ", last.msg.msg.result.err))

NotInitializedResult == Err(NotInitializedText)

\* C30: a load runs on the AppData cloned when it was scheduled: the task a
\* LoadData schedules carries the AppData of that moment, no later step
\* changes a scheduled task, a load scheduled without a handle completes with
\* the not-initialized error even when the handle has been installed since,
\* and a load scheduled with a handle never completes with that error
C30_LoadUsesScheduledClone ==
  [][/\ (last'.op = "deliver" /\ last'.msg = LoadDataPm)
          => tasks' = Append(tasks, LoadProjectsTask(app_data))
     /\ (last'.op = "complete" /\ IsDataLoaded(last'.msg))
          => \E i \in DOMAIN tasks :
               /\ IsLoadTask(tasks[i])
               /\ tasks' = [j \in 1..(Len(tasks) - 1) |->
                              IF j < i THEN tasks[j] ELSE tasks[j + 1]]
               /\ is_some(tasks[i].app_data.db)
                    <=> last'.msg.msg.result /= NotInitializedResult
     /\ last'.op /= "complete"
          => \A i \in DOMAIN tasks : tasks'[i] = tasks[i]]_vars

C30_Witness ==
  /\ last.op = "complete"
  /\ IsDataLoaded(last.msg)
  /\ last.msg.msg.result = NotInitializedResult
  /\ is_some(app_data.db)
  /\ LoadTaskCount(tasks) = 1
  /\ is_some(tasks[1].app_data.db)

\* C31: overlapping loads leave the snapshot of the load issued later: the
\* runtime applies results in the order they are handed over and the page
\* takes each one, so a load hands over a successful result only when no load
\* issued before it still holds a different successful result (which would be
\* applied after it and stay on the page)
C31_LaterLoadWins ==
  [][(last'.op = "complete" /\ IsDataLoaded(last'.msg) /\ last'.msg.msg.result.ok)
       => \A i \in DOMAIN tasks :
            (/\ tasks[i].kind = "loaded"
             /\ tasks[i].held = last'.msg
             /\ tasks' = [j \in 1..(Len(tasks) - 1) |->
                            IF j < i THEN tasks[j] ELSE tasks[j + 1]])
              => \A j \in 1..(i - 1) :
                   (tasks[j].kind = "loaded" /\ tasks[j].held.msg.result.ok)
                     => tasks[j].held = last'.msg]_vars

\* C32: after a SaveButtonClicked or DeleteCharacter, whether or not its
\* settings-store write or read failed, the list in memory equals the stored
\* list
C32_MemoryEqualsStore ==
  [][OcMutated => config' = Some(oc_generator_page'.saved_characters)]_vars

\* C33: a DeleteCharacter(i) whose index is not less than the length of the
\* saved list, here the second of two DeleteCharacter messages for the last
\* index applied back to back, is handled without a panic and leaves the
\* saved list unchanged
C33_DeleteOutOfRangeHarmless ==
  [][\A i \in 0..MaxSaved :
       (/\ last.op = "widget"
        /\ last.msg = Msg_OcGeneratorPage(OC_DeleteCharacter(i))
        /\ OcApplied(OC_DeleteCharacter(i))
        /\ i >= Len(oc_generator_page.saved_characters))
         => (~panicked'
               /\ oc_generator_page'.saved_characters
                    = oc_generator_page.saved_characters)]_vars

\* C34: a LoadData message that loads the saved characters from the settings
\* store (the stored list replaces a different list in memory) marks the page
\* loaded, so that no later LoadData reads the store again
C34_LoadedOnce ==
  [][(/\ OcApplied(OC_LoadData)
      /\ is_some(config)
      /\ oc_generator_page.saved_characters /= unwrap(config)
      /\ oc_generator_page'.saved_characters = unwrap(config))
       => oc_generator_page'.is_loaded]_vars

\* C35: applying a load result Err(e) sets error_message to the text
\* "Failed to load projects: " followed by e and is_loading to false, and
\* leaves the projects, the toasts and the new-project form of the page as
\* they were
C35_FailedLoadKeepsSnapshot ==
  [][(last'.op = "deliver" /\ IsDataLoaded(last'.msg)
        /\ ~last'.msg.msg.result.ok)
       => /\ project_manager_page'.error_message
               = Some(format("Failed to load projects: ",
                             last'.msg.msg.result.err))
          /\ ~project_manager_page'.is_loading
          /\ project_manager_page'.projects = project_manager_page.projects
          /\ project_manager_page'.toasts = project_manager_page.toasts
          /\ project_manager_page'.new_project_form
               = project_manager_page.new_project_form]_vars

C35_Witness ==
  /\ last.op = "deliver"
  /\ IsDataLoaded(last.msg)
  /\ ~last.msg.msg.result.ok
  /\ project_manager_page.projects /= <<>>
  /\ project_manager_page.error_message
       = Some(format("Failed to load projects: ", last.msg.msg.result.err))
  /\ ~project_manager_page.is_loading

\* C36: when the load result applied last is Ok, the project manager page
\* shows no load error
C36_ErrorClearedByOkLoad ==
  (last.op = "deliver" /\ IsDataLoaded(last.msg) /\ last.msg.msg.result.ok)
    => project_manager_page.error_message = None

\* C37: once init has run, the active nav item maps to one of the three
\* pages (the OC generator after init, then the page on_nav_select activated
\* last), so active_page() is never None and view never reaches its panic
\* branch
C37_ActivePageAlwaysValid ==
  /\ [](started => /\ active_page(nav) \in {Some(p) : p \in Pages}
                   /\ ~AppModel_view(nav).panic)
  /\ [][/\ last'.op = "init" => active_page(nav') = Some("OCGenerator")
        /\ last'.op = "on_nav_select"
             => active_page(nav') = Some(last'.msg.page)
        /\ (started /\ last'.op \notin {"init", "on_nav_select"})
             => nav' = nav]_vars

C37_Witness ==
  /\ started
  /\ last.op = "on_nav_select"
  /\ last.msg.page = "DiceRoller"
  /\ AppModel_view(nav) = [panic |-> FALSE, page |-> Some("DiceRoller")]

\* C38: the new-project form is local state: UpdateName changes only the name
\* field, UpdateDescription only the description field, Cancel clears both,
\* CreateProject leaves both as they are, nothing outside the form changes,
\* and the CreateProject message of the save button carries the current name
\* and a description that is None exactly when the description field is empty
C38_FormIsLocalState ==
  [][last'.op = "form"
       => LET form == project_manager_page.new_project_form
              after == project_manager_page'.new_project_form
              m == last'.msg
          IN  /\ project_manager_page'
                   = [project_manager_page EXCEPT !.new_project_form = after]
              /\ UNCHANGED <<started, panicked, nav, app_data, oc_generator_page,
                             tasks, queue, store, config, svc>>
              /\ m.kind = "UpdateName"
                   => after = [name |-> m.name, description |-> form.description]
              /\ m.kind = "UpdateDescription"
                   => after = [name |-> form.name, description |-> m.description]
              /\ m.kind = "Cancel" => after = [name |-> "", description |-> ""]
              /\ m.kind = "CreateProject"
                   => /\ after = form
                      /\ m.name = form.name
                      /\ (m.description = None) <=> (form.description = "")
                      /\ form.description /= ""
                           => m.description = Some(form.description)]_vars

C38_Witness ==
  /\ last.op = "form"
  /\ last.msg = NP_CreateProject("Alpha", Some("d"))
  /\ project_manager_page.new_project_form = [name |-> "Alpha", description |-> "d"]

=============================================================================
